---------------------------- MODULE Spec2Model ----------------------------
(***************************************************************************)
(* A model of the three Veo3 prompt-builder programs of the repository:    *)
(*   simple_veo3_builder.py  the command-line builder ("cli"),             *)
(*   veo3_prompt_builder.py  the Streamlit dashboard ("dash"),             *)
(*   demo_veo3_builder.py    the non-interactive demo ("demo").            *)
(* A Python str is modelled as a sequence of one-character strings, so     *)
(* that split, strip, replace, join and slicing are computed as Python     *)
(* computes them.  A Python float is modelled as a record: a finite value  *)
(* in tenths, or one of nan, inf, -inf.                                    *)
(***************************************************************************)
EXTENDS Integers, Sequences, FiniteSets, TLC

VARIABLES
    prog,            \* which program runs: "cli", "dash", "demo" or "rules"
    pc,              \* the position of the program in its run
    components,      \* PromptComponents
    scene,           \* SceneConfig
    current_prompt,  \* the document: a dict from key to value
    comp_idx,        \* cli: index of the component being asked for (1..8)
    saved_file,      \* the JSON file written at the end of a run
    event,           \* dash: what the chat input and the button return in this run
    ops,             \* number of user operations so far (bounded by the model)
    results,         \* outputs of the rule functions applied on their own
    messages         \* the dashboard's chat: the content of the last assistant reply

vars == <<prog, pc, components, scene, current_prompt, comp_idx, saved_file, event, ops, results, messages>>

(***************************************************************************)
(* Bounds of the model.                                                    *)
(***************************************************************************)
\* iterations of the configure_scene menu loop before option 8 is taken
MaxConfigOps == 2
\* user interactions with the dashboard in one session
MaxDashOps == 3

(***************************************************************************)
(* Python str operations on sequences of characters.                       *)
(***************************************************************************)
Whitespace == {" ", "\t", "\n"}

SetMin(S) == CHOOSE x \in S : \A y \in S : x <= y

SetMax(S) == CHOOSE x \in S : \A y \in S : x >= y

\* str.strip()
strip(s) ==
    LET keep == {i \in 1..Len(s) : s[i] \notin Whitespace}
    IN  IF keep = {} THEN <<>> ELSE SubSeq(s, SetMin(keep), SetMax(keep))

\* str.split(): the maximal runs of non-whitespace characters, in order
RECURSIVE split(_)
split(s) ==
    IF Len(s) = 0 THEN <<>>
    ELSE IF s[1] \in Whitespace THEN split(Tail(s))
    ELSE LET ws == {i \in 1..Len(s) : s[i] \in Whitespace}
             n  == IF ws = {} THEN Len(s) ELSE SetMin(ws) - 1
         IN  <<SubSeq(s, 1, n)>> \o split(SubSeq(s, n + 1, Len(s)))

\* sep.join(parts)
RECURSIVE join(_, _)
join(sep, parts) ==
    IF Len(parts) = 0 THEN <<>>
    ELSE IF Len(parts) = 1 THEN parts[1]
    ELSE parts[1] \o sep \o join(sep, Tail(parts))

\* s.replace(c, "") for a one-character c
remove(s, c) == SelectSeq(s, LAMBDA x : x # c)

\* seq[:n]
take(s, n) == SubSeq(s, 1, IF Len(s) < n THEN Len(s) ELSE n)

UpperCase == <<"A","B","C","D","E","F","G","H","I","J","K","L","M",
               "N","O","P","Q","R","S","T","U","V","W","X","Y","Z">>

LowerCase == <<"a","b","c","d","e","f","g","h","i","j","k","l","m",
               "n","o","p","q","r","s","t","u","v","w","x","y","z">>

\* str.lower()
lower(s) ==
    [i \in 1..Len(s) |->
        IF \E k \in 1..26 : UpperCase[k] = s[i]
        THEN LowerCase[CHOOSE k \in 1..26 : UpperCase[k] = s[i]]
        ELSE s[i]]

\* whether sub occurs in s as a contiguous substring (Python: sub in s)
contains(s, sub) ==
    \E i \in 0..(Len(s) - Len(sub)) : SubSeq(s, i + 1, i + Len(sub)) = sub

(***************************************************************************)
(* Python float: finite values are kept in tenths.                         *)
(***************************************************************************)
Fin(tenths) == [k |-> "fin", v |-> tenths]

NaN == [k |-> "nan", v |-> 0]

PosInf == [k |-> "inf", v |-> 0]

NegInf == [k |-> "ninf", v |-> 0]

\* a <= b on floats: every comparison with nan is False
FLe(a, b) ==
    /\ a.k # "nan"
    /\ b.k # "nan"
    /\ \/ a.k = "ninf"
       \/ b.k = "inf"
       \/ a.k = "fin" /\ b.k = "fin" /\ a.v <= b.v

\* a < b on floats
FLt(a, b) == a.k # "nan" /\ b.k # "nan" /\ ~FLe(b, a)

Digits == <<"0","1","2","3","4","5","6","7","8","9">>

IsDigits(s) == Len(s) > 0 /\ \A i \in 1..Len(s) : \E d \in 1..10 : Digits[d] = s[i]

RECURSIVE DigitsValue(_)
DigitsValue(s) ==
    IF Len(s) = 0 THEN 0
    ELSE 10 * DigitsValue(SubSeq(s, 1, Len(s) - 1))
         + (CHOOSE d \in 1..10 : Digits[d] = s[Len(s)]) - 1

\* float(text) for the texts the model enters: surrounding whitespace is
\* dropped, then an optional sign, then "nan", "inf", digits, or digits "."
\* one digit.  Anything else raises ValueError (ok = FALSE).
float(text) ==
    LET t    == strip(text)
        neg  == Len(t) > 0 /\ t[1] = "-"
        sgn  == Len(t) > 0 /\ t[1] \in {"-", "+"}
        body == lower(IF sgn THEN Tail(t) ELSE t)
        dots == {i \in 1..Len(body) : body[i] = "."}
        whole  == IF dots = {} THEN body ELSE SubSeq(body, 1, SetMin(dots) - 1)
        frac == IF dots = {} THEN <<>> ELSE SubSeq(body, SetMin(dots) + 1, Len(body))
        mag  == 10 * DigitsValue(whole) + DigitsValue(frac)
    IN  IF body = <<"n","a","n">> THEN [ok |-> TRUE, val |-> NaN]
        ELSE IF body = <<"i","n","f">>
             THEN [ok |-> TRUE, val |-> IF neg THEN NegInf ELSE PosInf]
        ELSE IF dots = {} /\ IsDigits(body)
             THEN [ok |-> TRUE, val |-> Fin(IF neg THEN 0 - 10 * DigitsValue(body)
                                                  ELSE 10 * DigitsValue(body))]
        ELSE IF Cardinality(dots) = 1 /\ IsDigits(whole) /\ IsDigits(frac) /\ Len(frac) = 1
             THEN [ok |-> TRUE, val |-> Fin(IF neg THEN 0 - mag ELSE mag)]
        ELSE [ok |-> FALSE, val |-> NaN]

(***************************************************************************)
(* String literals of the programs.                                        *)
(***************************************************************************)
\* 'Subject: '
LabelSubject ==
    <<"S","u","b","j","e","c","t",":"," ">>

\* 'Action: '
LabelAction ==
    <<"A","c","t","i","o","n",":"," ">>

\* 'Scene: '
LabelScene ==
    <<"S","c","e","n","e",":"," ">>

\* 'Camera: '
LabelCamera ==
    <<"C","a","m","e","r","a",":"," ">>

\* 'Composition: '
LabelComposition ==
    <<"C","o","m","p","o","s","i","t","i","o","n",":"," ">>

\* 'Ambiance: '
LabelAmbiance ==
    <<"A","m","b","i","a","n","c","e",":"," ">>

\* 'Audio: '
LabelAudio ==
    <<"A","u","d","i","o",":"," ">>

\* 'Style: '
LabelStyle ==
    <<"S","t","y","l","e",":"," ">>

\* '. '
Separator ==
    <<"."," ">>

\* ' shot, '
ShotComma ==
    <<" ","s","h","o","t",","," ">>

\* '.mp4'
Mp4Suffix ==
    <<".","m","p","4">>

\* '...'
Ellipsis ==
    <<".",".",".">>

\* ' lighting'
LightingSuffix ==
    <<" ","l","i","g","h","t","i","n","g">>

\* 'video.mp4'
DefaultFileName ==
    <<"v","i","d","e","o",".","m","p","4">>

\* 'cinematic, photorealistic'
DefaultStyle ==
    <<"c","i","n","e","m","a","t","i","c",","," ","p","h","o","t","o","r","e","a","l","i","s",
      "t","i","c">>

\* 'wide'
Wide ==
    <<"w","i","d","e">>

\* 'medium'
Medium ==
    <<"m","e","d","i","u","m">>

\* 'close-up'
CloseUp ==
    <<"c","l","o","s","e","-","u","p">>

\* 'extreme close-up'
ExtremeCloseUp ==
    <<"e","x","t","r","e","m","e"," ","c","l","o","s","e","-","u","p">>

\* 'eye-level'
EyeLevel ==
    <<"e","y","e","-","l","e","v","e","l">>

\* 'low angle'
LowAngle ==
    <<"l","o","w"," ","a","n","g","l","e">>

\* 'high angle'
HighAngle ==
    <<"h","i","g","h"," ","a","n","g","l","e">>

\* "bird's eye"
BirdsEye ==
    <<"b","i","r","d","'","s"," ","e","y","e">>

\* 'dutch angle'
DutchAngle ==
    <<"d","u","t","c","h"," ","a","n","g","l","e">>

\* 'natural'
Natural ==
    <<"n","a","t","u","r","a","l">>

\* 'dramatic'
Dramatic ==
    <<"d","r","a","m","a","t","i","c">>

\* 'soft'
Soft ==
    <<"s","o","f","t">>

\* 'backlit'
Backlit ==
    <<"b","a","c","k","l","i","t">>

\* 'dawn'
Dawn ==
    <<"d","a","w","n">>

\* 'day'
Day ==
    <<"d","a","y">>

\* 'dusk'
Dusk ==
    <<"d","u","s","k">>

\* 'night'
Night ==
    <<"n","i","g","h","t">>

\* 'clear'
Clear ==
    <<"c","l","e","a","r">>

\* 'cloudy'
Cloudy ==
    <<"c","l","o","u","d","y">>

\* 'rainy'
Rainy ==
    <<"r","a","i","n","y">>

\* 'foggy'
Foggy ==
    <<"f","o","g","g","y">>

\* 'snowy'
Snowy ==
    <<"s","n","o","w","y">>

\* 'Static shot'
CameraFallback ==
    <<"S","t","a","t","i","c"," ","s","h","o","t">>

\* the keys of the document, and a key it does not have
\* 'prompt'
KeyPrompt ==
    <<"p","r","o","m","p","t">>
\* 'caption'
KeyCaption ==
    <<"c","a","p","t","i","o","n">>
\* 'file_name'
KeyFileName ==
    <<"f","i","l","e","_","n","a","m","e">>
\* 'input_image_urls'
KeyInputImageUrls ==
    <<"i","n","p","u","t","_","i","m","a","g","e","_","u","r","l","s">>
\* 'input_ids'
KeyInputIds ==
    <<"i","n","p","u","t","_","i","d","s">>
\* 'notes'
KeyNotes ==
    <<"n","o","t","e","s">>

\* the grave accent (U+0060), which a string of this language cannot hold
Backtick == "GRAVE"

\* the fences of a JSON block, the assistant's replies and the values in them
\* '(fence)'
Fence ==
    <<Backtick,Backtick,Backtick>>
\* '(fence)json'
FenceJson ==
    <<Backtick,Backtick,Backtick,"j","s","o","n">>
\* 'API Error: 401'
ReplyPlain ==
    <<"A","P","I"," ","E","r","r","o","r",":"," ","4","0","1">>
\* 'Done. (fence)json\n{"prompt": "p"}\n(fence)'
ReplyPrompt ==
    <<"D","o","n","e","."," ",Backtick,Backtick,Backtick,"j","s","o","n","\n","{","\"","p","r","o","m","p","t",
      "\"",":"," ","\"","p","\"","}","\n",Backtick,Backtick,Backtick>>
\* '(fence)json{"caption":"c","file_name":"f.mp4"}(fence)'
ReplyCaptionName ==
    <<Backtick,Backtick,Backtick,"j","s","o","n","{","\"","c","a","p","t","i","o","n","\"",":","\"","c","\"",
      ",","\"","f","i","l","e","_","n","a","m","e","\"",":","\"","f",".","m","p","4","\"","}",
      Backtick,Backtick,Backtick>>
\* '(fence)json{"notes":"n"}(fence)'
ReplyNotes ==
    <<Backtick,Backtick,Backtick,"j","s","o","n","{","\"","n","o","t","e","s","\"",":","\"","n","\"","}",Backtick,
      Backtick,Backtick>>
\* '(fence)json{"prompt":"p"(fence)'
ReplyMalformed ==
    <<Backtick,Backtick,Backtick,"j","s","o","n","{","\"","p","r","o","m","p","t","\"",":","\"","p","\"",Backtick,
      Backtick,Backtick>>
\* '(fence)json{"prompt":"p"}'
ReplyUnclosed ==
    <<Backtick,Backtick,Backtick,"j","s","o","n","{","\"","p","r","o","m","p","t","\"",":","\"","p","\"","}">>
\* '(fence)json(fence)'
ReplyEmptyBlock ==
    <<Backtick,Backtick,Backtick,"j","s","o","n",Backtick,Backtick,Backtick>>
\* '(fence)json 5 (fence)'
ReplyNumber ==
    <<Backtick,Backtick,Backtick,"j","s","o","n"," ","5"," ",Backtick,Backtick,Backtick>>
\* '(fence)json[["caption","c"],5](fence)'
ReplyPairs ==
    <<Backtick,Backtick,Backtick,"j","s","o","n","[","[","\"","c","a","p","t","i","o","n","\"",",","\"","c",
      "\"","]",",","5","]",Backtick,Backtick,Backtick>>
\* 'p'
TextP ==
    <<"p">>
\* 'c'
TextC ==
    <<"c">>
\* 'f.mp4'
TextF ==
    <<"f",".","m","p","4">>
\* 'n'
TextN ==
    <<"n">>

(***************************************************************************)
(* The data model: PromptComponents, SceneConfig and the document.         *)
(***************************************************************************)
ShotTypes == {Wide, Medium, CloseUp, ExtremeCloseUp}

CameraAngles == {EyeLevel, LowAngle, HighAngle, BirdsEye, DutchAngle}

LightingTypes == {Natural, Dramatic, Soft, Backlit}

TimesOfDay == {Dawn, Day, Dusk, Night}

Weathers == {Clear, Cloudy, Rainy, Foggy, Snowy}

\* PromptComponents() of the cli and of the dashboard
PromptComponents ==
    [subject |-> <<>>, action |-> <<>>, scene |-> <<>>, style |-> DefaultStyle,
     camera |-> <<>>, composition |-> <<>>, ambiance |-> <<>>, audio |-> <<>>]

\* SceneConfig() of the cli and of the dashboard
SceneConfig ==
    [camera_fov |-> Fin(500), camera_height |-> Fin(50), camera_distance |-> Fin(100),
     camera_angle |-> EyeLevel, shot_type |-> Medium, lighting_intensity |-> Fin(10),
     lighting_type |-> Natural, time_of_day |-> Day, weather |-> Clear]

\* the document a builder starts with
InitialPrompt ==
    [prompt |-> <<>>, caption |-> <<>>, file_name |-> DefaultFileName,
     input_image_urls |-> <<>>, input_ids |-> <<>>]

\* SceneConfig() of the demo
DemoSceneConfig ==
    [camera_fov |-> Fin(850), shot_type |-> Medium, camera_angle |-> LowAngle,
     lighting_type |-> Dramatic, time_of_day |-> Dusk, weather |-> Rainy]

\* PromptComponents() of the demo
DemoPromptComponents ==
    [
     subject |->
       <<"A"," ","w","o","m","a","n"," ","i","n"," ","h","e","r"," ","l","a","t","e"," ","2",
         "0","s",","," ","w","e","a","r","i","n","g"," ","a","n"," ","e","l","e","g","a","n",
         "t",","," ","f","l","o","o","r","-","l","e","n","g","t","h"," ","s","c","a","r","l",
         "e","t"," ","r","e","d"," ","d","r","e","s","s",","," ","c","o","n","f","i","d","e",
         "n","t"," ","e","x","p","r","e","s","s","i","o","n">>,
     action |->
       <<"w","a","l","k","i","n","g"," ","s","l","o","w","l","y"," ","d","o","w","n"," ","a",
         " ","r","a","i","n","-","s","l","i","c","k","e","d"," ","c","i","t","y"," ","s","t",
         "r","e","e","t",","," ","l","o","o","k","i","n","g"," ","o","v","e","r"," ","h","e",
         "r"," ","s","h","o","u","l","d","e","r"," ","m","y","s","t","e","r","i","o","u","s",
         "l","y">>,
     scene |->
       <<"D","o","w","n","t","o","w","n"," ","d","i","s","t","r","i","c","t"," ","a","t"," ",
         "m","i","d","n","i","g","h","t",","," ","n","e","o","n"," ","s","i","g","n","s"," ",
         "r","e","f","l","e","c","t","i","n","g"," ","i","n"," ","w","e","t"," ","p","a","v",
         "e","m","e","n","t",","," ","n","a","r","r","o","w"," ","a","l","l","e","y","w","a","y">>,
     camera |->
       <<"S","m","o","o","t","h"," ","t","r","a","c","k","i","n","g"," ","s","h","o","t"," ",
         "f","o","l","l","o","w","i","n","g"," ","b","e","h","i","n","d",","," ","8","5","m",
         "m"," ","l","e","n","s"," ","w","i","t","h"," ","s","h","a","l","l","o","w"," ","d",
         "e","p","t","h"," ","o","f"," ","f","i","e","l","d">>,
     composition |->
       <<"M","e","d","i","u","m"," ","s","h","o","t"," ","t","r","a","n","s","i","t","i","o",
         "n","i","n","g"," ","t","o"," ","c","l","o","s","e","-","u","p",","," ","r","u","l",
         "e"," ","o","f"," ","t","h","i","r","d","s"," ","c","o","m","p","o","s","i","t","i",
         "o","n">>,
     ambiance |->
       <<"F","i","l","m"," ","n","o","i","r"," ","a","e","s","t","h","e","t","i","c",","," ",
         "h","i","g","h"," ","c","o","n","t","r","a","s","t"," ","l","i","g","h","t","i","n",
         "g",","," ","d","e","e","p"," ","b","l","u","e","s"," ","a","n","d"," ","p","u","r",
         "p","l","e","s"," ","w","i","t","h"," ","c","r","i","m","s","o","n"," ","d","r","e",
         "s","s"," ","a","c","c","e","n","t">>,
     audio |->
       <<"A","u","d","i","o",":"," ","s","t","e","a","d","y"," ","r","a","i","n"," ","o","n",
         " ","p","a","v","e","m","e","n","t",","," ","d","i","s","t","a","n","t"," ","j","a",
         "z","z"," ","s","a","x","o","p","h","o","n","e"," ","f","r","o","m"," ","a"," ","b",
         "a","r",","," ","h","e","r"," ","h","e","e","l","s"," ","c","l","i","c","k","i","n",
         "g"," ","o","n"," ","w","e","t"," ","s","t","o","n","e">>,
     style |->
       <<"c","i","n","e","m","a","t","i","c",","," ","f","i","l","m"," ","n","o","i","r",",",
         " ","m","o","o","d","y"," ","a","t","m","o","s","p","h","e","r","i","c"," ","l","i",
         "g","h","t","i","n","g">>]

(***************************************************************************)
(* Lens and mood rule tables.                                              *)
(***************************************************************************)
\* display_lens_guide with the first boundary exclusive: 25.0 falls in the lower band
display_lens_guide_exclusive(fov) ==
    IF FLe(fov, Fin(250))
    THEN [lens_type |-> "Super Telephoto (200mm+)",
          effect |-> "Strong compression, isolated subjects"]
    ELSE IF FLt(fov, Fin(350))
    THEN [lens_type |-> "Telephoto (85-135mm)",
          effect |-> "Portrait lens, natural compression"]
    ELSE IF FLt(fov, Fin(550))
    THEN [lens_type |-> "Standard (35-50mm)",
          effect |-> "Natural perspective, human-like vision"]
    ELSE IF FLt(fov, Fin(750))
    THEN [lens_type |-> "Wide Angle (24-35mm)",
          effect |-> "Expanded view, some distortion"]
    ELSE [lens_type |-> "Ultra Wide (14-24mm)",
          effect |-> "Dramatic perspective, high distortion"]

\* the cli's lens guide: (lens_type, effect) for a field of view
display_lens_guide(fov) ==
    IF FLt(fov, Fin(250))
    THEN [lens_type |-> "Super Telephoto (200mm+)",
          effect |-> "Strong compression, isolated subjects"]
    ELSE IF FLt(fov, Fin(350))
    THEN [lens_type |-> "Telephoto (85-135mm)",
          effect |-> "Portrait lens, natural compression"]
    ELSE IF FLt(fov, Fin(550))
    THEN [lens_type |-> "Standard (35-50mm)",
          effect |-> "Natural perspective, human-like vision"]
    ELSE IF FLt(fov, Fin(750))
    THEN [lens_type |-> "Wide Angle (24-35mm)",
          effect |-> "Expanded view, some distortion"]
    ELSE [lens_type |-> "Ultra Wide (14-24mm)",
          effect |-> "Dramatic perspective, high distortion"]

\* the demo's lens analysis of a scene
analyze_scene_setup(config) ==
    LET fov == config.camera_fov
    IN  IF FLt(fov, Fin(250))
        THEN [lens_type |-> "Super Telephoto (200mm+)",
              effect |-> "Strong compression, isolated subjects"]
        ELSE IF FLt(fov, Fin(350))
        THEN [lens_type |-> "Telephoto (85-135mm)",
              effect |-> "Portrait lens, natural compression"]
        ELSE IF FLt(fov, Fin(550))
        THEN [lens_type |-> "Standard (35-50mm)",
              effect |-> "Natural perspective, human-like vision"]
        ELSE IF FLt(fov, Fin(750))
        THEN [lens_type |-> "Wide Angle (24-35mm)",
              effect |-> "Expanded view, some distortion"]
        ELSE [lens_type |-> "Ultra Wide (14-24mm)",
              effect |-> "Dramatic perspective, high distortion"]

\* the camera lookup with the analysis wording as its default
camera_suggestions_other_default(shot_type) ==
    IF shot_type = Wide THEN
        <<"S","t","a","t","i","c"," ","w","i","d","e"," ","s","h","o","t"," ","e","s","t","a",
          "b","l","i","s","h","i","n","g"," ","t","h","e"," ","e","n","v","i","r","o","n","m",
          "e","n","t">>
    ELSE IF shot_type = Medium THEN
        <<"S","l","o","w"," ","d","o","l","l","y"," ","f","o","r","w","a","r","d"," ","f","o",
          "r"," ","c","h","a","r","a","c","t","e","r"," ","f","o","c","u","s">>
    ELSE IF shot_type = CloseUp THEN
        <<"H","a","n","d","h","e","l","d"," ","c","l","o","s","e","-","u","p"," ","f","o","r",
          " ","i","n","t","i","m","a","c","y">>
    ELSE IF shot_type = ExtremeCloseUp THEN
        <<"M","a","c","r","o"," ","l","e","n","s"," ","e","x","t","r","e","m","e"," ","c","l",
          "o","s","e","-","u","p"," ","r","e","v","e","a","l","i","n","g"," ","d","e","t","a",
          "i","l","s">>
    ELSE shot_type \o <<" ","s","h","o","t">>

\* camera_suggestions.get(shot_type, "Static shot")
camera_suggestions(shot_type) ==
    IF shot_type = Wide THEN
        <<"S","t","a","t","i","c"," ","w","i","d","e"," ","s","h","o","t"," ","e","s","t","a",
          "b","l","i","s","h","i","n","g"," ","t","h","e"," ","e","n","v","i","r","o","n","m",
          "e","n","t">>
    ELSE IF shot_type = Medium THEN
        <<"S","l","o","w"," ","d","o","l","l","y"," ","f","o","r","w","a","r","d"," ","f","o",
          "r"," ","c","h","a","r","a","c","t","e","r"," ","f","o","c","u","s">>
    ELSE IF shot_type = CloseUp THEN
        <<"H","a","n","d","h","e","l","d"," ","c","l","o","s","e","-","u","p"," ","f","o","r",
          " ","i","n","t","i","m","a","c","y">>
    ELSE IF shot_type = ExtremeCloseUp THEN
        <<"M","a","c","r","o"," ","l","e","n","s"," ","e","x","t","r","e","m","e"," ","c","l",
          "o","s","e","-","u","p"," ","r","e","v","e","a","l","i","n","g"," ","d","e","t","a",
          "i","l","s">>
    ELSE CameraFallback

\* the ambiance lookup without its table: the fallback for every pair
ambiance_map_fallback_only(lighting_type, time_of_day) ==
    lighting_type \o <<" ">> \o time_of_day \o LightingSuffix

\* ambiance_map.get((lighting_type, time_of_day), f"{lighting_type} {time_of_day} lighting")
ambiance_map(lighting_type, time_of_day) ==
    IF lighting_type = Natural /\ time_of_day = Day THEN
        <<"B","r","i","g","h","t"," ","n","a","t","u","r","a","l"," ","s","u","n","l","i","g",
          "h","t"," ","w","i","t","h"," ","s","o","f","t"," ","s","h","a","d","o","w","s">>
    ELSE IF lighting_type = Natural /\ time_of_day = Dawn THEN
        <<"G","o","l","d","e","n"," ","h","o","u","r"," ","l","i","g","h","t","i","n","g"," ",
          "w","i","t","h"," ","w","a","r","m"," ","o","r","a","n","g","e"," ","t","o","n","e",
          "s">>
    ELSE IF lighting_type = Natural /\ time_of_day = Dusk THEN
        <<"B","l","u","e"," ","h","o","u","r"," ","w","i","t","h"," ","d","e","e","p"," ","p",
          "u","r","p","l","e"," ","a","n","d"," ","o","r","a","n","g","e"," ","s","k","y">>
    ELSE IF lighting_type = Natural /\ time_of_day = Night THEN
        <<"M","o","o","n","l","i","g","h","t"," ","w","i","t","h"," ","c","o","o","l"," ","b",
          "l","u","e"," ","t","o","n","e","s"," ","a","n","d"," ","d","e","e","p"," ","s","h",
          "a","d","o","w","s">>
    ELSE IF lighting_type = Dramatic /\ time_of_day = Day THEN
        <<"H","i","g","h"," ","c","o","n","t","r","a","s","t"," ","l","i","g","h","t","i","n",
          "g"," ","w","i","t","h"," ","s","h","a","r","p"," ","s","h","a","d","o","w","s">>
    ELSE IF lighting_type = Dramatic /\ time_of_day = Night THEN
        <<"C","h","i","a","r","o","s","c","u","r","o"," ","l","i","g","h","t","i","n","g"," ",
          "w","i","t","h"," ","s","t","a","r","k"," ","b","l","a","c","k"," ","a","n","d"," ",
          "w","h","i","t","e"," ","c","o","n","t","r","a","s","t">>
    ELSE IF lighting_type = Soft /\ time_of_day = Day THEN
        <<"D","i","f","f","u","s","e","d"," ","o","v","e","r","c","a","s","t"," ","l","i","g",
          "h","t"," ","w","i","t","h"," ","g","e","n","t","l","e"," ","s","h","a","d","o","w",
          "s">>
    ELSE IF lighting_type = Backlit /\ time_of_day = Day THEN
        <<"S","t","r","o","n","g"," ","b","a","c","k","l","i","g","h","t","i","n","g"," ","c",
          "r","e","a","t","i","n","g"," ","s","i","l","h","o","u","e","t","t","e","s"," ","a",
          "n","d"," ","r","i","m"," ","l","i","g","h","t">>
    ELSE lighting_type \o <<" ">> \o time_of_day \o LightingSuffix

(***************************************************************************)
(* The cli's prompt assembler (build_final_prompt).                        *)
(***************************************************************************)
\* cli_segments with the Camera and Scene segments in the wrong order
cli_segments_reordered(c, s) ==
    << IF c.subject # <<>> THEN LabelSubject \o c.subject ELSE <<>>,
       IF c.action # <<>> THEN LabelAction \o c.action ELSE <<>>,
       IF c.camera # <<>> THEN LabelCamera \o c.camera ELSE <<>>,
       IF c.scene # <<>> THEN LabelScene \o c.scene ELSE <<>>,
       IF s.shot_type # <<>>
       THEN LabelComposition \o s.shot_type \o ShotComma \o s.camera_angle ELSE <<>>,
       IF c.ambiance # <<>> THEN LabelAmbiance \o c.ambiance ELSE <<>>,
       IF c.audio # <<>> THEN LabelAudio \o c.audio ELSE <<>>,
       IF c.style # <<>> THEN LabelStyle \o c.style ELSE <<>> >>

\* cli_segments reading components.composition when the caller has set it
cli_segments_caller_composition(c, s) ==
    << IF c.subject # <<>> THEN LabelSubject \o c.subject ELSE <<>>,
       IF c.action # <<>> THEN LabelAction \o c.action ELSE <<>>,
       IF c.scene # <<>> THEN LabelScene \o c.scene ELSE <<>>,
       IF c.camera # <<>> THEN LabelCamera \o c.camera ELSE <<>>,
       IF c.composition # <<>> THEN LabelComposition \o c.composition
       ELSE IF s.shot_type # <<>>
       THEN LabelComposition \o s.shot_type \o ShotComma \o s.camera_angle ELSE <<>>,
       IF c.ambiance # <<>> THEN LabelAmbiance \o c.ambiance ELSE <<>>,
       IF c.audio # <<>> THEN LabelAudio \o c.audio ELSE <<>>,
       IF c.style # <<>> THEN LabelStyle \o c.style ELSE <<>> >>

\* the list `components` of build_final_prompt, before the empty ones are dropped
cli_segments(c, s) ==
    << IF c.subject # <<>> THEN LabelSubject \o c.subject ELSE <<>>,
       IF c.action # <<>> THEN LabelAction \o c.action ELSE <<>>,
       IF c.scene # <<>> THEN LabelScene \o c.scene ELSE <<>>,
       IF c.camera # <<>> THEN LabelCamera \o c.camera ELSE <<>>,
       IF s.shot_type # <<>>
       THEN LabelComposition \o s.shot_type \o ShotComma \o s.camera_angle ELSE <<>>,
       IF c.ambiance # <<>> THEN LabelAmbiance \o c.ambiance ELSE <<>>,
       IF c.audio # <<>> THEN LabelAudio \o c.audio ELSE <<>>,
       IF c.style # <<>> THEN LabelStyle \o c.style ELSE <<>> >>

\* cli_prompt without the filter that drops the empty segments
cli_prompt_unfiltered(c, s) == join(Separator, cli_segments(c, s))

\* current_prompt["prompt"] as build_final_prompt sets it
cli_prompt(c, s) ==
    join(Separator, SelectSeq(cli_segments(c, s), LAMBDA seg : seg # <<>>))

\* cli_caption with the slice one token too long
cli_caption_nine(c, before) ==
    IF c.subject # <<>> /\ c.action # <<>>
    THEN join(<<" ">>, take(split(c.subject \o <<" ">> \o c.action), 9))
    ELSE before

\* current_prompt["caption"] after build_final_prompt, given its value before
cli_caption(c, before) ==
    IF c.subject # <<>> /\ c.action # <<>>
    THEN join(<<" ">>, take(split(c.subject \o <<" ">> \o c.action), 8))
    ELSE before

\* cli_file_name removing the spaces only, as the demo does
cli_file_name_keeps_hyphens(s) ==
    remove(s.shot_type, " ") \o <<"-">> \o s.time_of_day \o Mp4Suffix

\* current_prompt["file_name"] as build_final_prompt sets it
cli_file_name(s) ==
    remove(remove(s.shot_type, "-"), " ") \o <<"-">> \o s.time_of_day \o Mp4Suffix

(***************************************************************************)
(* The demo's assembler (build_veo3_json).                                 *)
(***************************************************************************)
\* the starts of the occurrences of sub that s.replace(sub, ...) replaces: the
\* first one at or after `from`, then those after its end
RECURSIVE occurrences(_, _, _)
occurrences(s, sub, from) ==
    LET found == {i \in from..(Len(s) - Len(sub) + 1) : SubSeq(s, i, i + Len(sub) - 1) = sub}
    IN  IF found = {} THEN {}
        ELSE {SetMin(found)} \cup occurrences(s, sub, SetMin(found) + Len(sub))

\* s.replace(sub, "") for a non-empty sub
remove_all(s, sub) ==
    LET starts == occurrences(s, sub, 1)
        kept   == {i \in 1..Len(s) : \A m \in starts : i < m \/ i >= m + Len(sub)}
    IN  [j \in 1..Cardinality(kept) |->
            s[CHOOSE i \in kept : Cardinality({k \in kept : k <= i}) = j]]

\* full_prompt of build_veo3_json: every part, empty or not
demo_prompt(c) ==
    join(Separator,
         << LabelSubject \o c.subject, LabelAction \o c.action, LabelScene \o c.scene,
            LabelCamera \o c.camera, LabelComposition \o c.composition,
            LabelAmbiance \o c.ambiance, LabelAudio \o c.audio, LabelStyle \o c.style >>)

\* caption of build_veo3_json
demo_caption(c) ==
    join(<<" ">>,
         take(split(remove_all(remove_all(demo_prompt(c), LabelSubject), LabelAction)), 8))
    \o Ellipsis

\* filename of build_veo3_json
demo_file_name(s) ==
    remove(s.shot_type, " ") \o <<"-">> \o s.time_of_day \o Mp4Suffix

\* the dict build_veo3_json returns
build_veo3_json(s, c) ==
    [prompt |-> demo_prompt(c), caption |-> demo_caption(c),
     file_name |-> demo_file_name(s), input_image_urls |-> <<>>, input_ids |-> <<>>]

(***************************************************************************)
(* The dashboard's assembler.                                              *)
(***************************************************************************)
\* current_prompt["prompt"] as update_prompt_from_components sets it
update_prompt_from_components(c) ==
    LET part(label, value) == IF value # <<>> THEN <<label \o value>> ELSE <<>>
    IN  join(Separator,
             part(LabelSubject, c.subject) \o part(LabelAction, c.action)
             \o part(LabelScene, c.scene) \o part(LabelCamera, c.camera)
             \o part(LabelComposition, c.composition) \o part(LabelAmbiance, c.ambiance)
             \o part(LabelAudio, c.audio) \o part(LabelStyle, c.style))

\* caption of the Auto-Generate button
dash_caption(prompt_text) == join(<<" ">>, take(split(prompt_text), 8)) \o Ellipsis

\* filename of the Auto-Generate button
dash_file_name(s) == s.shot_type \o <<"-">> \o s.time_of_day \o Mp4Suffix

(***************************************************************************)
(* What the user types at the cli's prompts.                               *)
(***************************************************************************)
\* 'A woman in her late 20s wearing red'
TextWoman ==
    <<"A"," ","w","o","m","a","n"," ","i","n"," ","h","e","r"," ","l","a","t","e"," ","2","0",
      "s"," ","w","e","a","r","i","n","g"," ","r","e","d">>

\* ' Ann\t Lee '
TextAnnLee ==
    <<" ","A","n","n","\t"," ","L","e","e"," ">>

\* 'walking slowly down a street'
TextWalking ==
    <<"w","a","l","k","i","n","g"," ","s","l","o","w","l","y"," ","d","o","w","n"," ","a"," ",
      "s","t","r","e","e","t">>

\* 'runs'
TextRuns ==
    <<"r","u","n","s">>

\* 'a street'
TextStreet ==
    <<"a"," ","s","t","r","e","e","t">>

\* 'pan '
TextPan ==
    <<"p","a","n"," ">>

\* 'rule of thirds'
TextThirds ==
    <<"r","u","l","e"," ","o","f"," ","t","h","i","r","d","s">>

\* 'noir'
TextNoir ==
    <<"n","o","i","r">>

\* 'rain'
TextRain ==
    <<"r","a","i","n">>

\* 'anime'
TextAnime ==
    <<"a","n","i","m","e">>

\* answers to "Select option (1-8): "
MenuChoices ==
    {<<"1">>, <<"2">>, <<"3">>, <<"4">>, <<"5">>, <<"6">>, <<"7">>, <<"8">>,
     <<" ","8"," ">>, <<"9">>, <<>>}

\* answers to "Enter FOV (20-120): "
FovTexts ==
    {<<"a","b","c">>, <<"1","9",".","9">>, <<"1","2","0",".","1">>, <<"n","a","n">>,
     <<" ","7","5"," ">>}

ShotTexts == {<<"1">>, <<"2">>, <<"3">>, <<"4">>, <<"5">>}

AngleTexts == {<<"4"," ">>, <<"6">>}

HeightTexts == {<<"-","0",".","1">>, <<"0">>, <<"x">>, <<"i","n","f">>}

DistanceTexts == {<<"0">>, <<"2",".","5">>, <<"n","a","n">>}

LightTexts == {<<"1">>, <<"2">>, <<"3">>, <<"4">>, <<"x">>}

TimeTexts == {<<"1">>, <<"2">>, <<"3">>, <<"4">>, <<>>}

WeatherTexts == {<<"3">>, <<"7">>}

\* answers to "Enter <component>: "
ComponentTexts ==
    [subject     |-> {<<>>, TextWoman, TextAnnLee},
     action      |-> {<<>>, TextWalking},
     scene       |-> {<<>>, TextStreet},
     camera      |-> {<<>>, <<" ">>, TextPan},
     composition |-> {<<>>, TextThirds},
     ambiance    |-> {<<>>, TextNoir},
     audio       |-> {<<>>, TextRain},
     style       |-> {<<>>, TextAnime}]

\* answers to "Use this suggestion? (y/n): "
AnswerTexts == {<<"y">>, <<"Y">>, <<"n">>}

(***************************************************************************)
(* The cli: Veo3PromptBuilder.run of simple_veo3_builder.py.               *)
(***************************************************************************)
NotWritten == [written |-> FALSE]

\* the cli after Veo3PromptBuilder()
InitCli ==
    /\ prog = "cli"
    /\ pc = "configure"
    /\ components = PromptComponents
    /\ scene = SceneConfig
    /\ current_prompt = InitialPrompt
    /\ comp_idx = 0
    /\ saved_file = NotWritten
    /\ event = "none"
    /\ ops = 0
    /\ results = <<>>
    /\ messages = <<>>

\* one pass of the menu loop that reads `choice` and stays in the loop
AtMenu(choice) ==
    /\ prog = "cli"
    /\ pc = "configure"
    /\ ops < MaxConfigOps
    /\ \E raw \in MenuChoices : strip(raw) = choice
    /\ ops' = ops + 1
    /\ UNCHANGED <<prog, pc, components, current_prompt, comp_idx, saved_file, event,
                   results, messages>>

\* option 1 without the range test
configure_fov_unchecked ==
    /\ AtMenu(<<"1">>)
    /\ \E text \in FovTexts :
         LET fov == float(text)
         IN  scene' = IF fov.ok THEN [scene EXCEPT !.camera_fov = fov.val] ELSE scene

\* option 1: camera FOV
configure_fov ==
    /\ AtMenu(<<"1">>)
    /\ \E text \in FovTexts :
         LET fov == float(text)
             accepted == fov.ok /\ FLe(Fin(200), fov.val) /\ FLe(fov.val, Fin(1200))
         IN  scene' = IF accepted THEN [scene EXCEPT !.camera_fov = fov.val] ELSE scene

shots ==
    (<<"1">> :> Wide) @@ (<<"2">> :> Medium) @@ (<<"3">> :> CloseUp)
    @@ (<<"4">> :> ExtremeCloseUp)

\* option 2: shot type
configure_shot ==
    /\ AtMenu(<<"2">>)
    /\ \E text \in ShotTexts :
         LET shot_choice == strip(text)
         IN  scene' = IF shot_choice \in DOMAIN shots
                      THEN [scene EXCEPT !.shot_type = shots[shot_choice]] ELSE scene

angles ==
    (<<"1">> :> EyeLevel) @@ (<<"2">> :> LowAngle) @@ (<<"3">> :> HighAngle)
    @@ (<<"4">> :> BirdsEye) @@ (<<"5">> :> DutchAngle)

\* option 3: camera angle
configure_angle ==
    /\ AtMenu(<<"3">>)
    /\ \E text \in AngleTexts :
         LET angle_choice == strip(text)
         IN  scene' = IF angle_choice \in DOMAIN angles
                      THEN [scene EXCEPT !.camera_angle = angles[angle_choice]] ELSE scene

\* option 4 that stores the height as soon as it is valid
configure_position_height_first ==
    /\ AtMenu(<<"4">>)
    /\ \E htext \in HeightTexts, dtext \in DistanceTexts :
         LET height == float(htext)
             distance == float(dtext)
             with_height == IF height.ok /\ FLe(Fin(0), height.val)
                            THEN [scene EXCEPT !.camera_height = height.val] ELSE scene
         IN  scene' = IF height.ok /\ distance.ok /\ FLt(Fin(0), distance.val)
                      THEN [with_height EXCEPT !.camera_distance = distance.val]
                      ELSE with_height

\* option 4: camera position; the distance is read only if the height parsed
configure_position ==
    /\ AtMenu(<<"4">>)
    /\ \E htext \in HeightTexts, dtext \in DistanceTexts :
         LET height == float(htext)
             distance == float(dtext)
         IN  scene' = IF /\ height.ok
                         /\ distance.ok
                         /\ FLe(Fin(0), height.val)
                         /\ FLt(Fin(0), distance.val)
                      THEN [scene EXCEPT !.camera_height = height.val,
                                         !.camera_distance = distance.val]
                      ELSE scene

lights ==
    (<<"1">> :> Natural) @@ (<<"2">> :> Dramatic) @@ (<<"3">> :> Soft)
    @@ (<<"4">> :> Backlit)

\* option 5: lighting style
configure_lighting ==
    /\ AtMenu(<<"5">>)
    /\ \E text \in LightTexts :
         LET light_choice == strip(text)
         IN  scene' = IF light_choice \in DOMAIN lights
                      THEN [scene EXCEPT !.lighting_type = lights[light_choice]] ELSE scene

times ==
    (<<"1">> :> Dawn) @@ (<<"2">> :> Day) @@ (<<"3">> :> Dusk) @@ (<<"4">> :> Night)

\* option 6: time of day
configure_time ==
    /\ AtMenu(<<"6">>)
    /\ \E text \in TimeTexts :
         LET time_choice == strip(text)
         IN  scene' = IF time_choice \in DOMAIN times
                      THEN [scene EXCEPT !.time_of_day = times[time_choice]] ELSE scene

weathers ==
    (<<"1">> :> Clear) @@ (<<"2">> :> Cloudy) @@ (<<"3">> :> Rainy) @@ (<<"4">> :> Foggy)
    @@ (<<"5">> :> Snowy)

\* option 7 that stores the selection as typed when the table does not have it
configure_weather_unchecked ==
    /\ AtMenu(<<"7">>)
    /\ \E text \in WeatherTexts :
         LET weather_choice == strip(text)
         IN  scene' = IF weather_choice \in DOMAIN weathers
                      THEN [scene EXCEPT !.weather = weathers[weather_choice]]
                      ELSE [scene EXCEPT !.weather = weather_choice]

\* option 7: weather
configure_weather ==
    /\ AtMenu(<<"7">>)
    /\ \E text \in WeatherTexts :
         LET weather_choice == strip(text)
         IN  scene' = IF weather_choice \in DOMAIN weathers
                      THEN [scene EXCEPT !.weather = weathers[weather_choice]] ELSE scene

\* any other choice: "Invalid choice", and the loop goes on
configure_invalid ==
    /\ \E raw \in MenuChoices :
         /\ strip(raw) \notin {<<"1">>, <<"2">>, <<"3">>, <<"4">>, <<"5">>, <<"6">>,
                               <<"7">>, <<"8">>}
         /\ AtMenu(strip(raw))
    /\ UNCHANGED scene

\* option 8: leave the loop; run goes on to build_prompt_components
configure_continue ==
    /\ prog = "cli"
    /\ pc = "configure"
    /\ \E raw \in MenuChoices : strip(raw) = <<"8">>
    /\ pc' = "components"
    /\ comp_idx' = 1
    /\ ops' = 0
    /\ UNCHANGED <<prog, components, scene, current_prompt, saved_file,
                   event, results, messages>>

\* the order of components_info
ComponentOrder ==
    <<"subject", "action", "scene", "camera", "composition", "ambiance", "audio", "style">>

\* component entry that stores the input even when it is empty
build_prompt_components_stores_empty ==
    /\ prog = "cli"
    /\ pc = "components"
    /\ \E text \in ComponentTexts[ComponentOrder[comp_idx]] :
         components' = [components EXCEPT ![ComponentOrder[comp_idx]] = strip(text)]
    /\ IF comp_idx < Len(ComponentOrder)
       THEN comp_idx' = comp_idx + 1 /\ pc' = "components"
       ELSE comp_idx' = 0 /\ pc' = "suggest"
    /\ UNCHANGED <<prog, scene, current_prompt, saved_file, event, ops,
                   results, messages>>

\* one pass of the loop of build_prompt_components: ask for a component and
\* keep the answer unless it is empty once stripped
build_prompt_components ==
    /\ prog = "cli"
    /\ pc = "components"
    /\ \E text \in ComponentTexts[ComponentOrder[comp_idx]] :
         LET component == ComponentOrder[comp_idx]
             new_value == strip(text)
         IN  components' = IF new_value # <<>>
                           THEN [components EXCEPT ![component] = new_value]
                           ELSE components
    /\ IF comp_idx < Len(ComponentOrder)
       THEN comp_idx' = comp_idx + 1 /\ pc' = "components"
       ELSE comp_idx' = 0 /\ pc' = "suggest"
    /\ UNCHANGED <<prog, scene, current_prompt, saved_file, event, ops,
                   results, messages>>

\* suggest_camera without the test that the field is empty
suggest_camera_overwrites(c, s, answer) ==
    IF lower(answer) = <<"y">> THEN camera_suggestions(s.shot_type) ELSE c.camera

\* components.camera after the camera part of suggest_from_scene
suggest_camera(c, s, answer) ==
    IF c.camera = <<>> /\ lower(answer) = <<"y">>
    THEN camera_suggestions(s.shot_type)
    ELSE c.camera

\* suggest_ambiance with the key of the table in the wrong order
suggest_ambiance_swapped(c, s, answer) ==
    IF c.ambiance = <<>> /\ lower(answer) = <<"y">>
    THEN ambiance_map(s.time_of_day, s.lighting_type)
    ELSE c.ambiance

\* components.ambiance after the ambiance part of suggest_from_scene
suggest_ambiance(c, s, answer) ==
    IF c.ambiance = <<>> /\ lower(answer) = <<"y">>
    THEN ambiance_map(s.lighting_type, s.time_of_day)
    ELSE c.ambiance

\* suggest_from_scene, called at the end of build_prompt_components
suggest_from_scene ==
    /\ prog = "cli"
    /\ pc = "suggest"
    /\ \E camera_answer \in AnswerTexts, ambiance_answer \in AnswerTexts :
         components' =
             [components EXCEPT
                 !.camera = suggest_camera(components, scene, camera_answer),
                 !.ambiance = suggest_ambiance(components, scene, ambiance_answer)]
    /\ pc' = "build"
    /\ UNCHANGED <<prog, scene, current_prompt, comp_idx, saved_file, event,
                   ops, results, messages>>

\* build_final_prompt leaving file_name as it was
build_final_prompt_keeps_name ==
    /\ prog = "cli"
    /\ pc = "build"
    /\ current_prompt' =
           [current_prompt EXCEPT
               !.prompt = cli_prompt(components, scene),
               !.caption = cli_caption(components, current_prompt.caption)]
    /\ pc' = "display"
    /\ UNCHANGED <<prog, components, scene, comp_idx, saved_file, event, ops, results, messages>>

\* build_final_prompt that also records the file name among the input ids
build_final_prompt_with_ids ==
    /\ prog = "cli"
    /\ pc = "build"
    /\ current_prompt' =
           [current_prompt EXCEPT
               !.prompt = cli_prompt(components, scene),
               !.caption = cli_caption(components, current_prompt.caption),
               !.file_name = cli_file_name(scene),
               !.input_ids = <<cli_file_name(scene)>>]
    /\ pc' = "display"
    /\ UNCHANGED <<prog, components, scene, comp_idx, saved_file, event, ops,
                   results, messages>>

\* build_final_prompt run before the suggestion step instead of after it
build_final_prompt_before_suggestions ==
    /\ prog = "cli"
    /\ \/ /\ pc = "suggest"
          /\ pc' = pc
          /\ current_prompt' =
                 [current_prompt EXCEPT
                     !.prompt = cli_prompt(components, scene),
                     !.caption = cli_caption(components, current_prompt.caption),
                     !.file_name = cli_file_name(scene)]
       \/ /\ pc = "build"
          /\ pc' = "display"
          /\ UNCHANGED current_prompt
    /\ UNCHANGED <<prog, components, scene, comp_idx, saved_file, event, ops,
                   results, messages>>

\* build_final_prompt
build_final_prompt ==
    /\ prog = "cli"
    /\ pc = "build"
    /\ current_prompt' =
           [current_prompt EXCEPT
               !.prompt = cli_prompt(components, scene),
               !.caption = cli_caption(components, current_prompt.caption),
               !.file_name = cli_file_name(scene)]
    /\ pc' = "display"
    /\ UNCHANGED <<prog, components, scene, comp_idx, saved_file, event, ops,
                   results, messages>>

\* display_final_output: print the document, write it to veo3_prompt.json
display_final_output ==
    /\ prog = "cli"
    /\ pc = "display"
    /\ saved_file' = [written |-> TRUE, content |-> current_prompt]
    /\ pc' = "done"
    /\ UNCHANGED <<prog, components, scene, current_prompt, comp_idx, event, ops,
                   results, messages>>

(***************************************************************************)
(* The demo: main of demo_veo3_builder.py.                                 *)
(***************************************************************************)
\* the demo at the start of main: no document yet
InitDemo ==
    /\ prog = "demo"
    /\ pc = "analyze"
    /\ components = DemoPromptComponents
    /\ scene = DemoSceneConfig
    /\ current_prompt = <<>>
    /\ comp_idx = 0
    /\ saved_file = NotWritten
    /\ event = "none"
    /\ ops = 0
    /\ results = <<>>
    /\ messages = <<>>

\* main: analyze_scene_setup(scene) and display_8_component_framework(components),
\* which only print
demo_analyze ==
    /\ prog = "demo"
    /\ pc = "analyze"
    /\ pc' = "build"
    /\ UNCHANGED <<prog, components, scene, current_prompt, comp_idx, saved_file, event,
                   ops, results, messages>>

\* main: veo3_json = build_veo3_json(scene, components)
demo_build ==
    /\ prog = "demo"
    /\ pc = "build"
    /\ current_prompt' = build_veo3_json(scene, components)
    /\ pc' = "save"
    /\ UNCHANGED <<prog, components, scene, comp_idx, saved_file, event, ops,
                   results, messages>>

\* main: json.dump(veo3_json, f)
demo_save ==
    /\ prog = "demo"
    /\ pc = "save"
    /\ saved_file' = [written |-> TRUE, content |-> current_prompt]
    /\ pc' = "done"
    /\ UNCHANGED <<prog, components, scene, current_prompt, comp_idx, event,
                   ops, results, messages>>

(***************************************************************************)
(* The assistant's reply and json.loads: a reply is a str, the block       *)
(* between the fences is cut out of it as the code cuts it, and json.loads *)
(* is a parser of objects, arrays, strings, integers and the three         *)
(* literals (fractions, exponents and \u escapes do not occur in the       *)
(* replies considered).  A parsed value is a record tagged with its        *)
(* Python type.                                                            *)
(***************************************************************************)
\* str.find(sub, start): the 0-based index of the first occurrence of sub at
\* or after start, -1 when there is none
find(s, sub, start) ==
    LET hits == {i \in start..(Len(s) - Len(sub)) : SubSeq(s, i + 1, i + Len(sub)) = sub}
    IN  IF hits = {} THEN -1 ELSE SetMin(hits)

\* s[a:b] for 0 <= a and 0 <= b
slice(s, a, b) == SubSeq(s, a + 1, IF b > Len(s) THEN Len(s) ELSE b)

PyStr(s) == [t |-> "str", v |-> s]

PyInt(n) == [t |-> "int", v |-> n]

PyNone == [t |-> "None", v |-> 0]

PyBool(b) == [t |-> "bool", v |-> b]

PyList(items) == [t |-> "list", v |-> items]

\* a dict is kept as the sequence of its <<key, value>> pairs in the order of
\* the text; a later pair with the same key wins
PyDict(pairs) == [t |-> "dict", v |-> pairs]

JsonWhitespace == {" ", "\t", "\n", "\r"}

\* the escapes of a JSON string
Escapes ==
    ("\"" :> "\"") @@ ("\\" :> "\\") @@ ("/" :> "/") @@ ("n" :> "\n") @@ ("t" :> "\t")
    @@ ("r" :> "\r")

\* the result of a failed parse (json.JSONDecodeError)
JSONDecodeError == [ok |-> FALSE, val |-> PyNone, next |-> 0]

Parsed(value, next) == [ok |-> TRUE, val |-> value, next |-> next]

\* the first position at or after i that holds no whitespace (Len(s) + 1 when
\* there is none)
skip(s, i) ==
    SetMin({j \in i..(Len(s) + 1) : j > Len(s) \/ s[j] \notin JsonWhitespace})

\* the string whose opening quote has been read; i is the next position
RECURSIVE scan_string(_, _, _)
scan_string(s, i, acc) ==
    IF i > Len(s) THEN JSONDecodeError
    ELSE IF s[i] = "\"" THEN Parsed(PyStr(acc), i + 1)
    ELSE IF s[i] = "\\" THEN
        IF i + 1 <= Len(s) /\ s[i + 1] \in DOMAIN Escapes
        THEN scan_string(s, i + 2, Append(acc, Escapes[s[i + 1]]))
        ELSE JSONDecodeError
    ELSE IF s[i] \in {"\n", "\t", "\r"} THEN JSONDecodeError
    ELSE scan_string(s, i + 1, Append(acc, s[i]))

\* an integer: an optional minus sign, then "0" or a run of digits that does
\* not start with "0"
scan_number(s, i) ==
    LET first == IF s[i] = "-" THEN i + 1 ELSE i
        stop == SetMin({j \in first..(Len(s) + 1) :
                           j > Len(s) \/ ~IsDigits(<<s[j]>>)})
        last == IF first <= Len(s) /\ s[first] = "0" THEN first ELSE stop - 1
        magnitude == DigitsValue(SubSeq(s, first, last))
    IN  IF stop = first THEN JSONDecodeError
        ELSE Parsed(PyInt(IF s[i] = "-" THEN 0 - magnitude ELSE magnitude), last + 1)

LiteralNull == <<"n","u","l","l">>

LiteralTrue == <<"t","r","u","e">>

LiteralFalse == <<"f","a","l","s","e">>

at(s, i, word) ==
    i + Len(word) - 1 <= Len(s) /\ SubSeq(s, i, i + Len(word) - 1) = word

RECURSIVE parse_value(_, _)
RECURSIVE parse_members(_, _, _)
RECURSIVE parse_elements(_, _, _)
\* the value that starts at position i
parse_value(s, i) ==
    IF i > Len(s) THEN JSONDecodeError
    ELSE IF s[i] = "\"" THEN scan_string(s, i + 1, <<>>)
    ELSE IF s[i] = "{" THEN
        LET j == skip(s, i + 1)
        IN  IF j <= Len(s) /\ s[j] = "}" THEN Parsed(PyDict(<<>>), j + 1)
            ELSE parse_members(s, j, <<>>)
    ELSE IF s[i] = "[" THEN
        LET j == skip(s, i + 1)
        IN  IF j <= Len(s) /\ s[j] = "]" THEN Parsed(PyList(<<>>), j + 1)
            ELSE parse_elements(s, j, <<>>)
    ELSE IF at(s, i, LiteralNull) THEN Parsed(PyNone, i + 4)
    ELSE IF at(s, i, LiteralTrue) THEN Parsed(PyBool(TRUE), i + 4)
    ELSE IF at(s, i, LiteralFalse) THEN Parsed(PyBool(FALSE), i + 5)
    ELSE IF s[i] = "-" \/ IsDigits(<<s[i]>>) THEN scan_number(s, i)
    ELSE JSONDecodeError

\* the members of an object from the key at position i on
parse_members(s, i, pairs) ==
    IF i > Len(s) \/ s[i] # "\"" THEN JSONDecodeError
    ELSE
        LET key == scan_string(s, i + 1, <<>>)
            colon == skip(s, key.next)
        IN  IF ~key.ok \/ colon > Len(s) \/ s[colon] # ":" THEN JSONDecodeError
            ELSE
                LET value == parse_value(s, skip(s, colon + 1))
                    end == skip(s, value.next)
                    all == Append(pairs, <<key.val.v, value.val>>)
                IN  IF ~value.ok \/ end > Len(s) THEN JSONDecodeError
                    ELSE IF s[end] = "}" THEN Parsed(PyDict(all), end + 1)
                    ELSE IF s[end] = "," THEN parse_members(s, skip(s, end + 1), all)
                    ELSE JSONDecodeError

\* the elements of an array from the value at position i on
parse_elements(s, i, items) ==
    LET value == parse_value(s, i)
        end == skip(s, value.next)
        all == Append(items, value.val)
    IN  IF ~value.ok \/ end > Len(s) THEN JSONDecodeError
        ELSE IF s[end] = "]" THEN Parsed(PyList(all), end + 1)
        ELSE IF s[end] = "," THEN parse_elements(s, skip(s, end + 1), all)
        ELSE JSONDecodeError

\* json.loads(s): one value with nothing but whitespace around it
json_loads(s) ==
    LET r == parse_value(s, skip(s, 1))
    IN  IF r.ok /\ skip(s, r.next) = Len(s) + 1 THEN r ELSE JSONDecodeError

(***************************************************************************)
(* dict.update on the document.  The document's keys are TLA+ strings; a   *)
(* key parsed from a reply is a sequence of characters and is looked up in *)
(* KeyNames, which lists the document's keys and the other keys that occur *)
(* in the replies considered.                                              *)
(***************************************************************************)
KeyNames ==
    [prompt |-> KeyPrompt, caption |-> KeyCaption, file_name |-> KeyFileName,
     input_image_urls |-> KeyInputImageUrls, input_ids |-> KeyInputIds,
     notes |-> KeyNotes]

intern(key) == CHOOSE name \in DOMAIN KeyNames : KeyNames[name] = key

\* a parsed value as the document holds it: a str as its characters, a list
\* as the sequence of its items, any other value as it is
RECURSIVE to_document(_)
to_document(value) ==
    IF value.t = "str" THEN value.v
    ELSE IF value.t = "list" THEN [i \in 1..Len(value.v) |-> to_document(value.v[i])]
    ELSE value

\* d[key] = value
setitem(d, key, value) ==
    [k \in DOMAIN d \cup {intern(key)} |->
        IF k = intern(key) THEN to_document(value) ELSE d[k]]

\* d.update(pairs) for the pairs of a dict, in order
RECURSIVE update_pairs(_, _)
update_pairs(d, pairs) ==
    IF pairs = <<>> THEN d
    ELSE update_pairs(setitem(d, pairs[1][1], pairs[1][2]), Tail(pairs))

\* d.update(items) for a list: each item must be a sequence of two elements,
\* the first the key; the items before the first bad one have taken effect
\* when the bad one raises
RECURSIVE update_items(_, _)
update_items(d, items) ==
    IF items = <<>> THEN [raised |-> FALSE, doc |-> d]
    ELSE
        LET item == items[1]
        IN  IF item.t = "list" /\ Len(item.v) = 2 /\ item.v[1].t = "str"
            THEN update_items(setitem(d, item.v[1].v, item.v[2]), Tail(items))
            ELSE IF item.t = "str" /\ Len(item.v) = 2
            THEN update_items(setitem(d, <<item.v[1]>>, PyStr(<<item.v[2]>>)), Tail(items))
            ELSE [raised |-> TRUE, doc |-> d]

\* current_prompt.update(new_prompt): a dict is merged key by key (a key the
\* document does not have is added), a list or str is read as a sequence of
\* pairs, any other value raises TypeError and changes nothing
dict_update(d, new_prompt) ==
    IF new_prompt.t = "dict" THEN [raised |-> FALSE, doc |-> update_pairs(d, new_prompt.v)]
    ELSE IF new_prompt.t = "list" THEN update_items(d, new_prompt.v)
    ELSE IF new_prompt.t = "str" THEN
        [raised |-> new_prompt.v # <<>>, doc |-> d]
    ELSE [raised |-> TRUE, doc |-> d]

\* the replies the assistant may give (call_mistral_api returns a str in
\* every case, an "API Error" text included)
Replies ==
    {ReplyPlain, ReplyPrompt, ReplyCaptionName, ReplyNotes, ReplyMalformed,
     ReplyUnclosed, ReplyEmptyBlock, ReplyNumber, ReplyPairs}

\* what the sidebar's "Mistral API Key" field may hold
ApiKeys == {<<>>, <<"k">>}

\* extract_and_merge with the except clause of json.JSONDecodeError taken
\* away: the text that fails to parse ends up in the document
extract_and_merge_undiscarded(d, response) ==
    IF contains(response, FenceJson)
    THEN
        LET json_start == find(response, FenceJson, 0) + 7
            json_end == find(response, Fence, json_start)
            json_str == strip(slice(response, json_start, json_end))
            new_prompt == json_loads(json_str)
        IN  IF json_end > json_start
            THEN IF new_prompt.ok THEN dict_update(d, new_prompt.val)
                 ELSE [raised |-> FALSE, doc |-> [d EXCEPT !.prompt = json_str]]
            ELSE [raised |-> FALSE, doc |-> d]
    ELSE [raised |-> FALSE, doc |-> d]

\* "Extract JSON if present": the block after the first json fence up to the
\* next fence, stripped, parsed and merged into the document.  A
\* json.JSONDecodeError is passed over; raised tells that update raised.
extract_and_merge(d, response) ==
    IF contains(response, FenceJson)
    THEN
        LET json_start == find(response, FenceJson, 0) + 7
            json_end == find(response, Fence, json_start)
            json_str == strip(slice(response, json_start, json_end))
            new_prompt == json_loads(json_str)
        IN  IF json_end > json_start /\ new_prompt.ok
            THEN dict_update(d, new_prompt.val)
            ELSE [raised |-> FALSE, doc |-> d]
    ELSE [raised |-> FALSE, doc |-> d]

(***************************************************************************)
(* The dashboard: Veo3PromptBuilder.run of veo3_prompt_builder.py, which   *)
(* Streamlit runs from the top at every user interaction and at st.rerun.  *)
(***************************************************************************)
\* the session after initialize_session_state
InitDash ==
    /\ prog = "dash"
    /\ pc = "start"
    /\ components = PromptComponents
    /\ scene = SceneConfig
    /\ current_prompt = InitialPrompt
    /\ comp_idx = 0
    /\ saved_file = NotWritten
    /\ event = "none"
    /\ ops = 0
    /\ results = <<>>
    /\ messages = <<>>

\* the values a user may give the scene widgets
SceneWidgetValues ==
    [camera_fov |-> {Fin(200), Fin(1200)},
     shot_type |-> ShotTypes,
     camera_angle |-> {EyeLevel, LowAngle},
     camera_height |-> {Fin(5), Fin(50)},
     camera_distance |-> {Fin(20), Fin(100)},
     lighting_type |-> {Natural, Dramatic},
     lighting_intensity |-> {Fin(1), Fin(10)},
     time_of_day |-> TimesOfDay,
     weather |-> {Clear, Rainy}]

\* the texts a user may give the component widgets (kept as typed)
ComponentWidgetValues ==
    [subject     |-> {<<>>, TextWoman},
     action      |-> {<<>>, TextRuns},
     scene       |-> {<<>>, TextStreet},
     camera      |-> {<<>>, <<" ">>},
     composition |-> {<<>>, TextThirds},
     ambiance    |-> {<<>>, TextNoir},
     audio       |-> {<<>>, TextRain},
     style       |-> {<<>>, DefaultStyle}]

\* the first column of a script run: the widgets give the scene and the
\* components their values, then update_prompt_from_components
Controls(new_scene, new_components, ev) ==
    /\ scene' = new_scene
    /\ components' = new_components
    /\ current_prompt' =
           [current_prompt EXCEPT !.prompt = update_prompt_from_components(new_components)]
    /\ event' = ev
    /\ pc' = "col3"
    /\ UNCHANGED <<prog, comp_idx, saved_file, results, messages>>

\* the first script run of a session: a selectbox returns its first option,
\* a slider and a text widget the value they are given
run_first ==
    /\ prog = "dash"
    /\ pc = "start"
    /\ Controls([scene EXCEPT !.shot_type = Wide, !.camera_angle = EyeLevel,
                              !.lighting_type = Natural, !.time_of_day = Dawn,
                              !.weather = Clear],
                components, "none")
    /\ UNCHANGED ops

\* a script run started by the user changing one scene widget
run_scene_widget ==
    /\ prog = "dash"
    /\ pc = "idle"
    /\ ops < MaxDashOps
    /\ \E field \in DOMAIN SceneWidgetValues :
         \E value \in SceneWidgetValues[field] :
            Controls([scene EXCEPT ![field] = value], components, "none")
    /\ ops' = ops + 1

\* a script run started by the user editing one component widget
run_component_widget ==
    /\ prog = "dash"
    /\ pc = "idle"
    /\ ops < MaxDashOps
    /\ \E field \in DOMAIN ComponentWidgetValues :
         \E value \in ComponentWidgetValues[field] :
            Controls(scene, [components EXCEPT ![field] = value], "none")
    /\ ops' = ops + 1

\* a script run started by a click on "Auto-Generate Caption & Filename"
run_button ==
    /\ prog = "dash"
    /\ pc = "idle"
    /\ ops < MaxDashOps
    /\ Controls(scene, components, "button")
    /\ ops' = ops + 1

\* the script run that st.rerun() starts: no widget has changed
run_rerun ==
    /\ prog = "dash"
    /\ pc = "rerun"
    /\ Controls(scene, components, "none")
    /\ UNCHANGED ops

\* a script run started by the user sending a chat message
run_chat ==
    /\ prog = "dash"
    /\ pc = "idle"
    /\ ops < MaxDashOps
    /\ Controls(scene, components, "chat")
    /\ ops' = ops + 1

\* the third column when a chat message was sent.  Without an API key an
\* error is shown and the script run goes on to display the document.  With
\* one, the reply is appended to the messages and its JSON block is merged;
\* then st.rerun() ends the script run, unless update raised: the exception
\* is caught, an error is shown and the document is displayed as it is.
chat ==
    /\ prog = "dash"
    /\ pc = "col3"
    /\ event = "chat"
    /\ \E api_key \in ApiKeys :
         \E response \in Replies :
            LET merged == extract_and_merge(current_prompt, response)
            IN  IF api_key = <<>>
                THEN /\ pc' = "idle"
                     /\ UNCHANGED <<current_prompt, messages>>
                ELSE /\ messages' = response
                     /\ current_prompt' = merged.doc
                     /\ pc' = IF merged.raised THEN "idle" ELSE "rerun"
    /\ event' = "none"
    /\ UNCHANGED <<prog, components, scene, comp_idx, saved_file, ops, results>>

\* the third column when the button was clicked and the prompt is not empty:
\* caption and file name are generated and st.rerun() ends the script run
auto_generate ==
    /\ prog = "dash"
    /\ pc = "col3"
    /\ event = "button"
    /\ current_prompt.prompt # <<>>
    /\ current_prompt' =
           [current_prompt EXCEPT !.caption = dash_caption(current_prompt.prompt),
                                  !.file_name = dash_file_name(scene)]
    /\ pc' = "rerun"
    /\ event' = "none"
    /\ UNCHANGED <<prog, components, scene, comp_idx, saved_file, ops,
                   results, messages>>

\* the third column otherwise: the document is displayed as it is
display_json ==
    /\ prog = "dash"
    /\ pc = "col3"
    /\ event = "none" \/ (event = "button" /\ current_prompt.prompt = <<>>)
    /\ pc' = "idle"
    /\ event' = "none"
    /\ UNCHANGED <<prog, components, scene, current_prompt, comp_idx, saved_file, ops, results, messages>>

(***************************************************************************)
(* The three programs.                                                     *)
(***************************************************************************)
Init == InitCli \/ InitDash \/ InitDemo

Next ==
    \/ configure_fov
    \/ configure_shot
    \/ configure_angle
    \/ configure_position
    \/ configure_lighting
    \/ configure_time
    \/ configure_weather
    \/ configure_invalid
    \/ configure_continue
    \/ build_prompt_components
    \/ suggest_from_scene
    \/ build_final_prompt
    \/ display_final_output
    \/ demo_analyze
    \/ demo_build
    \/ demo_save
    \/ run_first
    \/ run_scene_widget
    \/ run_component_widget
    \/ run_button
    \/ run_chat
    \/ chat
    \/ run_rerun
    \/ auto_generate
    \/ display_json

Spec == Init /\ [][Next]_vars

(***************************************************************************)
(* The lens classifiers applied on their own to every field of view from   *)
(* 20.0 to 120.0 degrees, in steps of a tenth of a degree.                 *)
(***************************************************************************)
FovDomain == {Fin(f) : f \in 200..1200}

InitLens ==
    /\ prog = "rules"
    /\ pc = "lens"
    /\ components = PromptComponents
    /\ \E fov \in FovDomain : scene = [SceneConfig EXCEPT !.camera_fov = fov]
    /\ current_prompt = InitialPrompt
    /\ comp_idx = 0
    /\ saved_file = NotWritten
    /\ event = "none"
    /\ ops = 0
    /\ results = <<>>
    /\ messages = <<>>

\* record the output of one rule function
Apply(name, value) ==
    /\ prog = "rules"
    /\ name \notin DOMAIN results
    /\ results' = results @@ (name :> value)
    /\ UNCHANGED <<prog, pc, components, scene, current_prompt, comp_idx, saved_file, event, ops,
                   messages>>

apply_display_lens_guide ==
    pc = "lens" /\ Apply("cli_lens", display_lens_guide(scene.camera_fov))

apply_analyze_scene_setup ==
    pc = "lens" /\ Apply("demo_lens", analyze_scene_setup(scene))

NextLens == apply_display_lens_guide \/ apply_analyze_scene_setup

SpecLens == InitLens /\ [][NextLens]_vars

(***************************************************************************)
(* The three file-name generators applied on their own to every            *)
(* (shot_type, time_of_day) pair.                                          *)
(***************************************************************************)
InitFileName ==
    /\ prog = "rules"
    /\ pc = "file_name"
    /\ components = PromptComponents
    /\ \E shot \in ShotTypes, time \in TimesOfDay :
         scene = [SceneConfig EXCEPT !.shot_type = shot, !.time_of_day = time]
    /\ current_prompt = InitialPrompt
    /\ comp_idx = 0
    /\ saved_file = NotWritten
    /\ event = "none"
    /\ ops = 0
    /\ results = <<>>
    /\ messages = <<>>

apply_cli_file_name == pc = "file_name" /\ Apply("cli_file_name", cli_file_name(scene))

apply_demo_file_name == pc = "file_name" /\ Apply("demo_file_name", demo_file_name(scene))

apply_dash_file_name == pc = "file_name" /\ Apply("dash_file_name", dash_file_name(scene))

NextFileName == apply_cli_file_name \/ apply_demo_file_name \/ apply_dash_file_name

SpecFileName == InitFileName /\ [][NextFileName]_vars

(***************************************************************************)
(* The two suggestion tables applied on their own to every shot type,      *)
(* listed or not, and every (lighting_type, time_of_day) pair.             *)
(***************************************************************************)
\* shot_type values that are not in the camera table
OtherShotTypes == {<<>>, <<"a","e","r","i","a","l">>, <<"W","i","d","e">>}

InitSuggestions ==
    /\ prog = "rules"
    /\ pc = "suggestions"
    /\ components = PromptComponents
    /\ \E shot \in ShotTypes \cup OtherShotTypes, light \in LightingTypes,
          time \in TimesOfDay :
         scene = [SceneConfig EXCEPT !.shot_type = shot, !.lighting_type = light,
                                     !.time_of_day = time]
    /\ current_prompt = InitialPrompt
    /\ comp_idx = 0
    /\ saved_file = NotWritten
    /\ event = "none"
    /\ ops = 0
    /\ results = <<>>
    /\ messages = <<>>

apply_camera_suggestions ==
    pc = "suggestions" /\ Apply("camera", camera_suggestions(scene.shot_type))

apply_ambiance_map ==
    /\ pc = "suggestions"
    /\ Apply("ambiance", ambiance_map(scene.lighting_type, scene.time_of_day))

NextSuggestions == apply_camera_suggestions \/ apply_ambiance_map

SpecSuggestions == InitSuggestions /\ [][NextSuggestions]_vars

(***************************************************************************)
(* Properties.                                                             *)
(***************************************************************************)
\* the cli has run build_final_prompt
CliBuilt == prog = "cli" /\ pc \in {"display", "done"}

\* the dashboard has just run update_prompt_from_components
DashUpdated == prog = "dash" /\ pc = "col3"

\* suggest_from_scene runs in this step
SuggestStep == prog = "cli" /\ pc = "suggest" /\ pc' = "build"

\* every component empty except style, which holds its default
OnlyDefaultStyle ==
    /\ \A f \in {"subject", "action", "scene", "camera", "composition", "ambiance",
                 "audio"} : components[f] = <<>>
    /\ components.style = DefaultStyle

\* 'Style: cinematic, photorealistic'
StyleOnlyPrompt ==
    <<"S","t","y","l","e",":"," ","c","i","n","e","m","a","t","i","c",","," ","p","h","o","t",
      "o","r","e","a","l","i","s","t","i","c">>

\* 'Composition: '
CompositionPrefix ==
    <<"C","o","m","p","o","s","i","t","i","o","n",":"," ">>

\* C1, as stated: with every component empty except the default style, the
\* prompt built by the cli and by the dashboard is exactly
\* "Style: cinematic, photorealistic".
C1_StyleOnly ==
    (OnlyDefaultStyle /\ (CliBuilt \/ DashUpdated))
        => current_prompt.prompt = StyleOnlyPrompt

\* C1, amended: with every component empty except the default style, the
\* dashboard's prompt is exactly "Style: cinematic, photorealistic", and the
\* cli's prompt is "Composition: <shot_type> shot, <camera_angle>. " followed by
\* "Style: cinematic, photorealistic".
C1_StyleOnlyAmended ==
    OnlyDefaultStyle =>
        /\ DashUpdated => current_prompt.prompt = StyleOnlyPrompt
        /\ CliBuilt =>
               current_prompt.prompt =
                   CompositionPrefix \o scene.shot_type \o <<" ","s","h","o","t",","," ">>
                   \o scene.camera_angle \o <<"."," ">> \o StyleOnlyPrompt

C1_Witness ==
    /\ CliBuilt
    /\ OnlyDefaultStyle
    /\ scene.shot_type = CloseUp
    /\ scene.camera_angle = BirdsEye

\* C2: suggest_from_scene leaves a camera and an ambiance that are not empty
\* as they are, whatever the scene and the answers.
C2_NeverOverwrites ==
    [][SuggestStep =>
          /\ components.camera # <<>> => components'.camera = components.camera
          /\ components.ambiance # <<>> => components'.ambiance = components.ambiance]_vars

C2_Witness ==
    /\ prog = "cli"
    /\ pc = "build"
    /\ components.camera = <<"p","a","n">>
    /\ components.ambiance = TextNoir
    /\ scene.shot_type = Wide

\* C3, as stated: a camera or an ambiance that is empty when suggest_from_scene
\* starts holds the rule-table suggestion when it finishes.
C3_FillsEmpty ==
    [][SuggestStep =>
          /\ components.camera = <<>>
                => components'.camera = camera_suggestions(scene.shot_type)
          /\ components.ambiance = <<>>
                => components'.ambiance
                       = ambiance_map(scene.lighting_type, scene.time_of_day)]_vars

\* C3, amended: a camera or an ambiance that is empty when suggest_from_scene
\* starts holds, when it finishes, the rule-table suggestion for the current
\* scene if the user accepted it, and is still empty if not.
C3_FillsEmptyIfAccepted ==
    [][SuggestStep =>
          /\ components.camera = <<>>
                => components'.camera \in {<<>>, camera_suggestions(scene.shot_type)}
          /\ components.ambiance = <<>>
                => components'.ambiance
                       \in {<<>>, ambiance_map(scene.lighting_type, scene.time_of_day)}]_vars

C3_Witness ==
    /\ prog = "cli"
    /\ pc = "build"
    /\ scene.lighting_type = Backlit
    /\ scene.time_of_day = Dusk
    /\ components.camera = camera_suggestions(Medium)
    /\ components.ambiance = Backlit \o <<" ">> \o Dusk \o LightingSuffix

\* the five bands of the lens guide: lo <= fov < hi, in tenths of a degree
LensBands ==
    << [lo |-> 0 - 1000000, hi |-> 250, lens_type |-> "Super Telephoto (200mm+)"],
       [lo |-> 250, hi |-> 350, lens_type |-> "Telephoto (85-135mm)"],
       [lo |-> 350, hi |-> 550, lens_type |-> "Standard (35-50mm)"],
       [lo |-> 550, hi |-> 750, lens_type |-> "Wide Angle (24-35mm)"],
       [lo |-> 750, hi |-> 1000000, lens_type |-> "Ultra Wide (14-24mm)"] >>

\* C4: every field of view from 20 to 120 lies in exactly one of the five
\* bands, lower bounds inclusive, the cli's and the demo's classifier both
\* select that band, and so they agree.
C4_LensPartition ==
    LET fov  == scene.camera_fov.v
        hits == {b \in 1..5 : LensBands[b].lo <= fov /\ fov < LensBands[b].hi}
    IN  (prog = "rules" /\ pc = "lens") =>
            /\ Cardinality(hits) = 1
            /\ \A name \in DOMAIN results :
                 \A b \in hits : results[name].lens_type = LensBands[b].lens_type
            /\ DOMAIN results = {"cli_lens", "demo_lens"}
                 => results["cli_lens"] = results["demo_lens"]

C4_Witness ==
    /\ prog = "rules"
    /\ pc = "lens"
    /\ scene.camera_fov = Fin(250)
    /\ DOMAIN results = {"cli_lens", "demo_lens"}
    /\ results["cli_lens"].lens_type = "Telephoto (85-135mm)"
    /\ results["demo_lens"].lens_type = "Telephoto (85-135mm)"

\* the segments of `slots` (<<label, value>> pairs) whose value is not empty,
\* in order, each but the first preceded by the separator
RECURSIVE EmitInOrder(_, _)
EmitInOrder(slots, emitted) ==
    IF Len(slots) = 0 THEN emitted
    ELSE LET segment == slots[1][1] \o slots[1][2]
         IN  EmitInOrder(Tail(slots),
                         IF slots[1][2] = <<>> THEN emitted
                         ELSE IF emitted = <<>> THEN segment
                         ELSE emitted \o <<"."," ">> \o segment)

StartsWith(s, prefix) == Len(prefix) <= Len(s) /\ SubSeq(s, 1, Len(prefix)) = prefix

EndsWith(s, suffix) ==
    Len(suffix) <= Len(s) /\ SubSeq(s, Len(s) - Len(suffix) + 1, Len(s)) = suffix

\* C5: the prompt is the segments "<Label>: <value>" of the slots subject,
\* action, scene, camera, composition, ambiance, audio, style, in that order,
\* joined by ". "; a slot other than composition gives a segment if and only if
\* its component is not empty; the prompt neither starts nor ends with ". ".
C5_OrderedSegments ==
    (CliBuilt \/ DashUpdated) =>
        /\ \E composition \in {<<>>, components.composition,
                               scene.shot_type \o ShotComma \o scene.camera_angle} :
             current_prompt.prompt =
                 EmitInOrder(<< <<LabelSubject, components.subject>>,
                                <<LabelAction, components.action>>,
                                <<LabelScene, components.scene>>,
                                <<LabelCamera, components.camera>>,
                                <<LabelComposition, composition>>,
                                <<LabelAmbiance, components.ambiance>>,
                                <<LabelAudio, components.audio>>,
                                <<LabelStyle, components.style>> >>, <<>>)
        /\ ~StartsWith(current_prompt.prompt, <<"."," ">>)
        /\ ~EndsWith(current_prompt.prompt, <<"."," ">>)

C5_Witness ==
    /\ CliBuilt
    /\ components.subject # <<>>
    /\ components.action = <<>>
    /\ components.scene # <<>>
    /\ components.camera = <<>>
    /\ components.ambiance # <<>>
    /\ components.audio = <<>>

\* C6: whenever shot_type is not empty the cli's prompt holds the segment
\* "Composition: <shot_type> shot, <camera_angle>", nothing else follows a
\* "Composition: " label, and the text the caller entered as composition
\* occurs nowhere in the prompt.
C6_SynthesizedWins ==
    LET prompt      == current_prompt.prompt
        synthesized == CompositionPrefix \o scene.shot_type
                       \o <<" ","s","h","o","t",","," ">> \o scene.camera_angle
        labels      == {i \in 1..Len(prompt) :
                           StartsWith(SubSeq(prompt, i, Len(prompt)), CompositionPrefix)}
    IN  (CliBuilt /\ scene.shot_type # <<>>) =>
            /\ labels # {}
            /\ \A i \in labels : StartsWith(SubSeq(prompt, i, Len(prompt)), synthesized)
            /\ components.composition # <<>> => ~contains(prompt, components.composition)

C6_Witness ==
    /\ CliBuilt
    /\ components.composition = TextThirds
    /\ scene.shot_type = Wide
    /\ scene.camera_angle = BirdsEye

NonWhitespace(s) == SelectSeq(s, LAMBDA ch : ch \notin Whitespace)

Spaces(s) == Cardinality({i \in 1..Len(s) : s[i] = " "})

\* 'Ann Lee walking slowly down a street'
CaptionAnnLeeWalking ==
    <<"A","n","n"," ","L","e","e"," ","w","a","l","k","i","n","g"," ","s","l","o","w","l","y",
      " ","d","o","w","n"," ","a"," ","s","t","r","e","e","t">>

\* C7: after build_final_prompt, if subject and action are both non-empty the
\* caption is the first 8 whitespace-delimited tokens of "<subject> <action>"
\* joined by single spaces: its only whitespace is single spaces between
\* tokens, at most 7 of them; its characters are the first non-whitespace
\* characters of "<subject> <action>", all of them if there are fewer than 8
\* tokens; the 8-token subject "A woman in her late 20s wearing red" gives
\* exactly itself.  If subject or action is empty the caption is empty.
C7_Caption ==
    LET caption == current_prompt.caption
        full    == components.subject \o <<" ">> \o components.action
    IN  CliBuilt =>
            IF components.subject # <<>> /\ components.action # <<>>
            THEN /\ \A i \in 1..Len(caption) :
                      caption[i] \in Whitespace =>
                          /\ caption[i] = " "
                          /\ 1 < i
                          /\ i < Len(caption)
                          /\ caption[i + 1] \notin Whitespace
                 /\ Spaces(caption) <= 7
                 /\ StartsWith(NonWhitespace(full), NonWhitespace(caption))
                 /\ Spaces(caption) < 7 => NonWhitespace(caption) = NonWhitespace(full)
                 /\ components.subject = TextWoman => caption = TextWoman
                 /\ components.subject = strip(TextAnnLee)
                       => caption = CaptionAnnLeeWalking
            ELSE caption = <<>>

C7_Witness ==
    /\ CliBuilt
    /\ components.subject = TextWoman
    /\ components.action = TextWalking
    /\ current_prompt.caption = TextWoman

\* shot_type with its spaces and hyphens removed
Stem ==
    (Wide :> <<"w","i","d","e">>) @@ (Medium :> <<"m","e","d","i","u","m">>)
    @@ (CloseUp :> <<"c","l","o","s","e","u","p">>)
    @@ (ExtremeCloseUp :> <<"e","x","t","r","e","m","e","c","l","o","s","e","u","p">>)

\* C8: after build_final_prompt the file name is shot_type without its spaces
\* and hyphens, then "-", then time_of_day, then ".mp4"; it holds exactly one
\* hyphen and no space.
C8_FileName ==
    LET file_name == current_prompt.file_name
    IN  CliBuilt =>
            /\ file_name = Stem[scene.shot_type] \o <<"-">> \o scene.time_of_day
                           \o <<".","m","p","4">>
            /\ Cardinality({i \in 1..Len(file_name) : file_name[i] = "-"}) = 1
            /\ Spaces(file_name) = 0

C8_Witness ==
    /\ CliBuilt
    /\ scene.shot_type = ExtremeCloseUp
    /\ scene.time_of_day = Dusk
    /\ current_prompt.file_name
           = <<"e","x","t","r","e","m","e","c","l","o","s","e","u","p","-","d","u","s","k",
               ".","m","p","4">>

\* C9: the cli's, the demo's and the dashboard's file-name generators agree on
\* every (shot_type, time_of_day) pair, and give "close-up-dusk.mp4" for
\* close-up at dusk.
C9_GeneratorsAgree ==
    (prog = "rules" /\ pc = "file_name") =>
        /\ \A a, b \in DOMAIN results : results[a] = results[b]
        /\ (scene.shot_type = CloseUp /\ scene.time_of_day = Dusk) =>
               \A a \in DOMAIN results :
                   results[a] = <<"c","l","o","s","e","-","u","p","-","d","u","s","k",".",
                                  "m","p","4">>

\* the dashboard displays the document
DashDisplayed == prog = "dash" /\ pc = "idle"

\* C10, as stated: whenever the document is presented, its prompt, caption and
\* file_name are what the assembly rules give for the current scene and
\* components (for the dashboard: by any of the rules of the three programs).
C10_PureFunction ==
    /\ CliBuilt =>
           /\ current_prompt.prompt = cli_prompt(components, scene)
           /\ current_prompt.caption = cli_caption(components, <<>>)
           /\ current_prompt.file_name = cli_file_name(scene)
    /\ DashDisplayed =>
           /\ current_prompt.prompt = update_prompt_from_components(components)
           /\ current_prompt.caption
                  \in {cli_caption(components, <<>>), demo_caption(components),
                       dash_caption(current_prompt.prompt)}
           /\ current_prompt.file_name
                  \in {cli_file_name(scene), demo_file_name(scene), dash_file_name(scene)}

\* C10, amended: in the cli, after build_final_prompt, prompt, caption and
\* file_name are what the assembly rules give for the current scene and
\* components, whatever the document held before.
C10_CliPureFunction ==
    CliBuilt =>
        /\ current_prompt.prompt = cli_prompt(components, scene)
        /\ current_prompt.caption = cli_caption(components, <<>>)
        /\ current_prompt.file_name = cli_file_name(scene)

C10_Witness ==
    /\ prog = "cli"
    /\ pc = "done"
    /\ components.subject = <<>>
    /\ components.action = TextWalking
    /\ scene.shot_type = CloseUp
    /\ scene.time_of_day = Night
    /\ current_prompt.caption = <<>>

\* the keys of the document
DocumentKeys == {"prompt", "caption", "file_name", "input_image_urls", "input_ids"}

\* C11: merging a fragment overwrites the document keys that occur in it,
\* leaves the others unchanged and ignores unknown keys: after any sequence of
\* merges the document's key set is exactly DocumentKeys.
C11_KeySetFixed ==
    prog = "dash" => DOMAIN current_prompt = DocumentKeys

\* the reply holds a json fence, and either no closing fence after it or a
\* block between the two that json.loads rejects
Malformed(response) ==
    /\ contains(response, FenceJson)
    /\ LET json_start == find(response, FenceJson, 0) + 7
           json_end == find(response, Fence, json_start)
       IN  \/ json_end = -1
           \/ ~json_loads(strip(slice(response, json_start, json_end))).ok

\* the chat handler runs in this step
ChatStep == prog = "dash" /\ pc = "col3" /\ event = "chat"

\* C12: a malformed JSON fragment is discarded: the chat handler that
\* receives it leaves every key of the document as it was, and the script run
\* ends in st.rerun() or in the display of the document, not in an error.
C12_MalformedDiscarded ==
    [][(ChatStep /\ Malformed(messages'))
          => (current_prompt' = current_prompt /\ pc' \in {"rerun", "idle"})]_vars

\* a malformed reply has just been handled, and the caption merged from an
\* earlier reply is still in the document
C12_Witness ==
    /\ prog = "dash"
    /\ pc = "rerun"
    /\ messages = ReplyMalformed
    /\ current_prompt.caption = TextC
    /\ current_prompt.file_name = TextF

\* C13: after any sequence of configure_scene operations camera_fov lies in
\* [20, 120], camera_height is >= 0, camera_distance is > 0 and
\* lighting_intensity lies in [0.1, 2.0]; an input that is rejected leaves the
\* field at its prior value, which is in range.
C13_NumericRanges ==
    prog = "cli" =>
        /\ FLe(Fin(200), scene.camera_fov)
        /\ FLe(scene.camera_fov, Fin(1200))
        /\ FLe(Fin(0), scene.camera_height)
        /\ FLt(Fin(0), scene.camera_distance)
        /\ FLe(Fin(1), scene.lighting_intensity)
        /\ FLe(scene.lighting_intensity, Fin(20))

\* two accepted inputs: " 75 " for the field of view, then "inf" and "2.5" for
\* the position
C13_Witness ==
    /\ prog = "cli"
    /\ pc = "configure"
    /\ ops = 2
    /\ scene.camera_fov = Fin(750)
    /\ scene.camera_height = PosInf
    /\ scene.camera_distance = Fin(25)

\* C14: after any sequence of configure_scene operations shot_type,
\* camera_angle, lighting_type, time_of_day and weather each hold one of their
\* listed values; an unknown selection leaves the prior value.
C14_EnumValues ==
    prog = "cli" =>
        /\ scene.shot_type \in ShotTypes
        /\ scene.camera_angle \in CameraAngles
        /\ scene.lighting_type \in LightingTypes
        /\ scene.time_of_day \in TimesOfDay
        /\ scene.weather \in Weathers

\* "4 " selected the bird's eye angle and "3" the rainy weather
C14_Witness ==
    /\ prog = "cli"
    /\ pc = "configure"
    /\ ops = 2
    /\ scene.camera_angle = BirdsEye
    /\ scene.weather = Rainy

\* the pair of inputs is accepted by option 4
PositionAccepted(htext, dtext) ==
    /\ float(htext).ok
    /\ float(dtext).ok
    /\ FLe(Fin(0), float(htext).val)
    /\ FLt(Fin(0), float(dtext).val)

\* C20: a step of the cli that changes camera_height or camera_distance is a
\* pass of the configuration menu that sets both to an accepted pair of
\* inputs and changes no other field of the scene, no component and no field
\* of the document.
C20_PositionAllOrNothing ==
    [][(/\ prog = "cli"
        /\ \/ scene'.camera_height # scene.camera_height
           \/ scene'.camera_distance # scene.camera_distance)
          => /\ pc = "configure"
             /\ \E htext \in HeightTexts, dtext \in DistanceTexts :
                  /\ PositionAccepted(htext, dtext)
                  /\ scene' = [scene EXCEPT !.camera_height = float(htext).val,
                                            !.camera_distance = float(dtext).val]
             /\ UNCHANGED <<components, current_prompt>>]_vars

\* option 4 has replaced both the height and the distance
C20_Witness ==
    /\ prog = "cli"
    /\ pc = "configure"
    /\ ops = 1
    /\ scene = [SceneConfig EXCEPT !.camera_height = Fin(0), !.camera_distance = Fin(25)]

\* the demo has built its document
DemoBuilt == prog = "demo" /\ pc \notin {"analyze", "build"}

\* C15: in the cli and in the demo, input_image_urls and input_ids of the
\* document are empty sequences at every point of a run.
C15_InputsEmpty ==
    (prog = "cli" \/ DemoBuilt) =>
        /\ current_prompt.input_image_urls = <<>>
        /\ current_prompt.input_ids = <<>>

\* a cli run with a configured scene, an entered subject, an accepted camera
\* suggestion and a built prompt
C15_Witness ==
    /\ CliBuilt
    /\ scene.weather = Rainy
    /\ components.subject = TextWoman
    /\ components.camera = camera_suggestions(scene.shot_type)
    /\ current_prompt.prompt # <<>>
    /\ current_prompt.input_image_urls = <<>>
    /\ current_prompt.input_ids = <<>>

\* the eight listed rows of the ambiance table: <<lighting_type, time_of_day, suggestion>>
ListedAmbiance ==
    {
     <<Natural, Day,
       <<"B","r","i","g","h","t"," ","n","a","t","u","r","a","l"," ","s","u","n","l","i",
         "g","h","t"," ","w","i","t","h"," ","s","o","f","t"," ","s","h","a","d","o","w","s">>>>,
     <<Natural, Dawn,
       <<"G","o","l","d","e","n"," ","h","o","u","r"," ","l","i","g","h","t","i","n","g",
         " ","w","i","t","h"," ","w","a","r","m"," ","o","r","a","n","g","e"," ","t","o",
         "n","e","s">>>>,
     <<Natural, Dusk,
       <<"B","l","u","e"," ","h","o","u","r"," ","w","i","t","h"," ","d","e","e","p"," ",
         "p","u","r","p","l","e"," ","a","n","d"," ","o","r","a","n","g","e"," ","s","k","y">>>>,
     <<Natural, Night,
       <<"M","o","o","n","l","i","g","h","t"," ","w","i","t","h"," ","c","o","o","l"," ",
         "b","l","u","e"," ","t","o","n","e","s"," ","a","n","d"," ","d","e","e","p"," ",
         "s","h","a","d","o","w","s">>>>,
     <<Dramatic, Day,
       <<"H","i","g","h"," ","c","o","n","t","r","a","s","t"," ","l","i","g","h","t","i",
         "n","g"," ","w","i","t","h"," ","s","h","a","r","p"," ","s","h","a","d","o","w","s">>>>,
     <<Dramatic, Night,
       <<"C","h","i","a","r","o","s","c","u","r","o"," ","l","i","g","h","t","i","n","g",
         " ","w","i","t","h"," ","s","t","a","r","k"," ","b","l","a","c","k"," ","a","n",
         "d"," ","w","h","i","t","e"," ","c","o","n","t","r","a","s","t">>>>,
     <<Soft, Day,
       <<"D","i","f","f","u","s","e","d"," ","o","v","e","r","c","a","s","t"," ","l","i",
         "g","h","t"," ","w","i","t","h"," ","g","e","n","t","l","e"," ","s","h","a","d",
         "o","w","s">>>>,
     <<Backlit, Day,
       <<"S","t","r","o","n","g"," ","b","a","c","k","l","i","g","h","t","i","n","g"," ",
         "c","r","e","a","t","i","n","g"," ","s","i","l","h","o","u","e","t","t","e","s",
         " ","a","n","d"," ","r","i","m"," ","l","i","g","h","t">>>>}

\* the four listed rows of the camera table: <<shot_type, suggestion>>
ListedCamera ==
    {
     <<Wide,
       <<"S","t","a","t","i","c"," ","w","i","d","e"," ","s","h","o","t"," ","e","s","t",
         "a","b","l","i","s","h","i","n","g"," ","t","h","e"," ","e","n","v","i","r","o",
         "n","m","e","n","t">>>>,
     <<Medium,
       <<"S","l","o","w"," ","d","o","l","l","y"," ","f","o","r","w","a","r","d"," ","f",
         "o","r"," ","c","h","a","r","a","c","t","e","r"," ","f","o","c","u","s">>>>,
     <<CloseUp,
       <<"H","a","n","d","h","e","l","d"," ","c","l","o","s","e","-","u","p"," ","f","o",
         "r"," ","i","n","t","i","m","a","c","y">>>>,
     <<ExtremeCloseUp,
       <<"M","a","c","r","o"," ","l","e","n","s"," ","e","x","t","r","e","m","e"," ","c",
         "l","o","s","e","-","u","p"," ","r","e","v","e","a","l","i","n","g"," ","d","e",
         "t","a","i","l","s">>>>}

\* the ambiance table has been applied to the scene
AmbianceApplied == prog = "rules" /\ pc = "suggestions" /\ "ambiance" \in DOMAIN results

\* C16: for a listed (lighting_type, time_of_day) pair the ambiance suggestion
\* is the listed string; for every other pair of the 4x4 product it is
\* "<lighting_type> <time_of_day> lighting" with single spaces.
C16_AmbianceTable ==
    AmbianceApplied =>
        LET rows == {r \in ListedAmbiance :
                        r[1] = scene.lighting_type /\ r[2] = scene.time_of_day}
        IN  IF rows # {}
            THEN \A r \in rows : results["ambiance"] = r[3]
            ELSE results["ambiance"] =
                     scene.lighting_type \o <<" ">> \o scene.time_of_day
                     \o <<" ","l","i","g","h","t","i","n","g">>

\* an unlisted pair and its suggestion
C16_Witness ==
    /\ AmbianceApplied
    /\ scene.lighting_type = Backlit
    /\ scene.time_of_day = Dusk
    /\ results["ambiance"] =
           <<"b","a","c","k","l","i","t"," ","d","u","s","k"," ","l","i","g","h","t","i","n","g">>

\* the camera table has been applied to the scene
CameraApplied == prog = "rules" /\ pc = "suggestions" /\ "camera" \in DOMAIN results

\* C17: a listed shot type yields its listed camera suggestion and every
\* other value yields "Static shot".
C17_CameraTable ==
    CameraApplied =>
        LET rows == {r \in ListedCamera : r[1] = scene.shot_type}
        IN  IF rows # {}
            THEN \A r \in rows : results["camera"] = r[2]
            ELSE results["camera"] = <<"S","t","a","t","i","c"," ","s","h","o","t">>

\* a shot type that is not listed and its suggestion
C17_Witness ==
    /\ CameraApplied
    /\ scene.shot_type = <<"a","e","r","i","a","l">>
    /\ results["camera"] = <<"S","t","a","t","i","c"," ","s","h","o","t">>

\* C18: the rerun that a merge triggers leaves the merged values in the
\* document that is displayed next: the prompt of a merged fragment is not
\* replaced by a prompt assembled from the components, and a merged caption
\* and file name stay as well.
C18_MergeLastWriteWins ==
    [][(prog = "dash" /\ pc = "rerun" /\ pc' = "col3")
          => /\ (messages = ReplyPrompt /\ current_prompt.prompt = TextP)
                    => current_prompt'.prompt = TextP
             /\ (/\ messages = ReplyCaptionName
                 /\ current_prompt.caption = TextC
                 /\ current_prompt.file_name = TextF)
                    => (current_prompt'.caption = TextC /\ current_prompt'.file_name = TextF)]_vars

\* the positions of a cli run, in the order of run
RunOrder == <<"configure", "components", "suggest", "build", "display", "done">>

Position(p) == CHOOSE i \in 1..Len(RunOrder) : RunOrder[i] = p

\* C19: a cli run goes through scene configuration, component entry, the
\* suggestion step, the build and the display in this order, each at most
\* once and none skipped; the
\* scene is written only during configuration, which is left with the scene
\* as configured, the components only during entry and suggestion, the
\* document only by the one build, the file only by the display.  The built
\* prompt has the segment "Camera: <camera>" (and "Ambiance: <ambiance>") if
\* the field is not empty after the suggestion step, so for an accepted
\* suggestion, and no such label otherwise, so for a declined one.
C19_RunOrder ==
    [][prog = "cli" =>
         /\ Position(pc') \in {Position(pc), Position(pc) + 1}
         /\ scene' # scene => (pc = "configure" /\ pc' = "configure")
         /\ components' # components => pc \in {"components", "suggest"}
         /\ current_prompt' # current_prompt => (pc = "build" /\ pc' = "display")
         /\ saved_file' # saved_file => (pc = "display" /\ pc' = "done")
         /\ (pc = "build" /\ pc' = "display") =>
               /\ IF components.camera # <<>>
                  THEN contains(current_prompt'.prompt, LabelCamera \o components.camera)
                  ELSE ~contains(current_prompt'.prompt, LabelCamera)
               /\ IF components.ambiance # <<>>
                  THEN contains(current_prompt'.prompt,
                                LabelAmbiance \o components.ambiance)
                  ELSE ~contains(current_prompt'.prompt, LabelAmbiance)]_vars

\* a finished run in which the camera suggestion was accepted and the ambiance
\* suggestion declined
C19_Witness ==
    /\ prog = "cli"
    /\ pc = "done"
    /\ components.camera = camera_suggestions(scene.shot_type)
    /\ components.ambiance = <<>>
    /\ contains(current_prompt.prompt, LabelCamera \o components.camera)
    /\ ~contains(current_prompt.prompt, LabelAmbiance)
    /\ saved_file = [written |-> TRUE, content |-> current_prompt]

\* C21: in the cli no step takes a component from non-empty to empty, so
\* style is never empty, and every built prompt is non-empty and ends with
\* the segment "Style: <style>".
C21_NeverEmptied ==
    /\ [](prog = "cli" =>
            /\ components.style # <<>>
            /\ CliBuilt =>
                  /\ current_prompt.prompt # <<>>
                  /\ EndsWith(current_prompt.prompt, LabelStyle \o components.style))
    /\ [][prog = "cli" =>
            \A component \in DOMAIN components :
                components[component] # <<>> => components'[component] # <<>>]_vars

\* a finished run in which the style prompt was answered with an empty line:
\* the default style is kept and closes the built prompt
C21_Witness ==
    /\ prog = "cli"
    /\ pc = "done"
    /\ components.style = DefaultStyle
    /\ components.audio = TextRain
    /\ components.ambiance = TextNoir
    /\ EndsWith(current_prompt.prompt, LabelStyle \o DefaultStyle)

=============================================================================
